---- MODULE Spec2Model ----
(***************************************************************************)
(* A model of gen_solution_report.py: the pipeline of main() that sorts    *)
(* the scan export, extracts remediation text and OS product names from    *)
(* the XML report, reconciles the two into a Windows and a non-Windows     *)
(* table, splits every solution text into Services / Solution Details and  *)
(* merges equal first-column cells of the written sheets.                  *)
(*                                                                         *)
(* Python strings are sequences of one-character strings, so that strip,   *)
(* split, join, startswith, `in` and the string order are computed as      *)
(* Python computes them.  An optional value (None or a string) is the      *)
(* empty sequence (None) or a one-element sequence holding the string.     *)
(***************************************************************************)
EXTENDS Integers, Sequences, FiniteSets, TLC

VARIABLES
    pc,                  \* position in main() / save_to_excel()
    csv,                 \* rows of the scan export, in file order
    doc,                 \* the parsed XML tree
    df_sorted,           \* main: df_sorted
    solutions,           \* main: solutions (vuln_id -> list of item strings)
    ip_product_map,      \* main: ip_product_map (address -> product or None)
    i,                   \* process_vulnerabilities: rows consumed so far, plus 1
    output_data_main,    \* process_vulnerabilities: output_data_main
    output_data_windows, \* process_vulnerabilities: output_data_windows
    df_main,             \* the Linux dataframe
    df_windows,          \* the Windows dataframe
    raised,              \* the exception that ended the run, if any
    sheet,               \* save_to_excel: column A of a sheet, rows 2..max_row
    row,                 \* merge_cells: loop variable
    current_value,       \* merge_cells: current_value
    start_row,           \* merge_cells: start_row
    merged               \* merge_cells: the ranges passed to sheet.merge_cells

vars == <<pc, csv, doc, df_sorted, solutions, ip_product_map, i,
          output_data_main, output_data_windows, df_main, df_windows, raised,
          sheet, row, current_value, start_row, merged>>

pipeVars == <<csv, doc, df_sorted, solutions, ip_product_map, i,
              output_data_main, output_data_windows, df_main, df_windows, raised>>

mergeVars == <<sheet, row, current_value, start_row, merged>>

-----------------------------------------------------------------------------
(* Bounds of the model.                                                    *)

MaxRecords == 2     \* rows of the scan export
MaxListItems == 2   \* list items per vulnerability in the XML report
MaxElems == 3       \* elements under one list item (parser specification)
MaxLen == 9         \* tokens of a solution text (splitter specification)
MaxRows == 5        \* data rows of a sheet (merge specification)

-----------------------------------------------------------------------------
(* Python's str operations.                                                *)

Space == " "

\* The two characters str.split is called with at lines 92, 93, 108, 109.
SplitSep == <<"=", ">">>

\* The prefix a continuation paragraph gets at line 44.
ParaPrefix == <<"=", ">", " ">>

\* str.lstrip()
RECURSIVE LStrip(_)
LStrip(s) ==
    IF s = <<>> THEN <<>>
    ELSE IF Head(s) = Space THEN LStrip(Tail(s)) ELSE s

\* str.rstrip()
RECURSIVE RStrip(_)
RStrip(s) ==
    IF s = <<>> THEN <<>>
    ELSE IF s[Len(s)] = Space THEN RStrip(SubSeq(s, 1, Len(s) - 1)) ELSE s

\* str.strip()
Strip(s) == RStrip(LStrip(s))

\* str.startswith(p)
StartsWith(s, p) ==
    Len(p) <= Len(s) /\ SubSeq(s, 1, Len(p)) = p

\* `sub in s` for two strings
Contains(sub, s) ==
    \E k \in 0..(Len(s) - Len(sub)) : SubSeq(s, k + 1, k + Len(sub)) = sub

\* str.split(sep) for a non-empty sep: scan from the left, cut at every
\* non-overlapping occurrence; the result has one more part than occurrences.
RECURSIVE SplitFrom(_, _, _)
SplitFrom(s, sep, acc) ==
    IF s = <<>> THEN <<acc>>
    ELSE IF StartsWith(s, sep)
         THEN <<acc>> \o SplitFrom(SubSeq(s, Len(sep) + 1, Len(s)), sep, <<>>)
         ELSE SplitFrom(Tail(s), sep, Append(acc, Head(s)))

Split(s, sep) == SplitFrom(s, sep, <<>>)

\* sep.join(parts)
RECURSIVE Join(_, _)
Join(sep, parts) ==
    IF parts = <<>> THEN <<>>
    ELSE IF Len(parts) = 1 THEN parts[1]
    ELSE parts[1] \o sep \o Join(sep, Tail(parts))

\* Code points of the characters addresses are written with.
CharCode(c) ==
    CASE c = "." -> 46
      [] c = "0" -> 48
      [] c = "1" -> 49
      [] c = "2" -> 50
      [] OTHER -> 0

\* Python's `<` on two strings: lexicographic by code point.
RECURSIVE StrLess(_, _)
StrLess(a, b) ==
    IF b = <<>> THEN FALSE
    ELSE IF a = <<>> THEN TRUE
    ELSE IF Head(a) = Head(b) THEN StrLess(Tail(a), Tail(b))
    ELSE CharCode(Head(a)) < CharCode(Head(b))

StrLeq(a, b) == a = b \/ StrLess(a, b)

-----------------------------------------------------------------------------
(* Optional values.                                                        *)

None == <<>>
Some(v) == <<v>>
IsNone(o) == o = <<>>
Get(o) == o[1]

-----------------------------------------------------------------------------
(* The XML report.                                                         *)
(*   doc.nodes : the <node> elements in document order, each with its      *)
(*               address attribute and what .find(".//fingerprints/os")    *)
(*               gives: None, or the element's product attribute, itself   *)
(*               None when the element declares none.                      *)
(*   doc.vulns : the <vulnerability> elements in document order, each with *)
(*               its id attribute and the ListItem elements the XPath of   *)
(*               line 24 reaches under it.  A ListItem is the sequence of  *)
(*               its descendant elements in document order, each with its  *)
(*               tag, its depth below the ListItem, its .text ("" when     *)
(*               None) and its LinkURL attribute (None when missing).      *)
(*               Tail text is not part of any element's .text and is never *)
(*               read by the code, so it is not represented.               *)

Elem(tag, depth, text, url) == [tag |-> tag, depth |-> depth, text |-> text, url |-> url]

\* The last index of the subtree rooted at item[k]: what para.iter() walks.
RECURSIVE IterEnd(_, _, _)
IterEnd(item, k, j) ==
    IF j < Len(item) /\ item[j + 1].depth > item[k].depth
    THEN IterEnd(item, k, j + 1)
    ELSE j

\* item.xpath(".//Paragraph"): every descendant Paragraph, in document order.
RECURSIVE ParagraphsFrom(_, _)
ParagraphsFrom(item, k) ==
    IF k > Len(item) THEN <<>>
    ELSE IF item[k].tag = "Paragraph"
         THEN <<k>> \o ParagraphsFrom(item, k + 1)
         ELSE ParagraphsFrom(item, k + 1)

Paragraphs(item) == ParagraphsFrom(item, 1)

\* Lines 33-38: text_parts of the paragraph at index k, walking elements
\* j..last; a part is None when a URLLink has no LinkURL attribute.
RECURSIVE TextParts(_, _, _)
TextParts(item, j, last) ==
    IF j > last THEN <<>>
    ELSE LET elem == item[j]
             rest == TextParts(item, j + 1, last)
         IN IF elem.tag = "URLLink" THEN <<elem.url>> \o rest
            ELSE IF elem.text # <<>> THEN <<Some(Strip(elem.text))>> \o rest
            ELSE rest

\* "".join(text_parts) raises TypeError when a part is None.
JoinRaises(parts) == \E k \in 1..Len(parts) : IsNone(parts[k])

RECURSIVE Concat(_)
Concat(parts) ==
    IF parts = <<>> THEN <<>> ELSE Get(Head(parts)) \o Concat(Tail(parts))

\* Line 39: paragraph_text.
ParagraphText(item, k) == Concat(TextParts(item, k, IterEnd(item, k, k)))

ParagraphRaises(item, k) == JoinRaises(TextParts(item, k, IterEnd(item, k, k)))

\* Lines 30-44: item_texts, for the paragraphs ps[n..].
RECURSIVE ItemTexts(_, _, _)
ItemTexts(item, ps, n) ==
    IF n > Len(ps) THEN <<>>
    ELSE (IF n = 1 THEN <<ParagraphText(item, ps[n])>>
          ELSE <<ParaPrefix \o ParagraphText(item, ps[n])>>)
         \o ItemTexts(item, ps, n + 1)

\* A variant of line 46 that joins without the space.
FullItemTextUnspaced(item) == Join(<<>>, ItemTexts(item, Paragraphs(item), 1))

\* Line 46: full_item_text.
FullItemText(item) == Join(<<Space>>, ItemTexts(item, Paragraphs(item), 1))

ItemRaises(item) ==
    \E n \in 1..Len(Paragraphs(item)) : ParagraphRaises(item, Paragraphs(item)[n])

\* Line 24-25: the ListItems of every vulnerability whose id is vuln_id.
RECURSIVE ListItems(_, _)
ListItems(vulns, vuln_id) ==
    IF vulns = <<>> THEN <<>>
    ELSE (IF Head(vulns).id = vuln_id THEN Head(vulns).items ELSE <<>>)
         \o ListItems(Tail(vulns), vuln_id)

\* The identifier is pasted between single quotes into the XPath text.  Over
\* the identifier alphabet of this model (letters and the quote) an
\* identifier holding a quote ends the literal early and leaves text the
\* XPath grammar rejects: root.xpath raises XPathEvalError.
XPathRaises(vuln_id) == \E k \in 1..Len(vuln_id) : vuln_id[k] = "'"

\* Lines 27-47: solution_list.
SolutionList(vulns, vuln_id) ==
    LET list_items == ListItems(vulns, vuln_id)
    IN [n \in 1..Len(list_items) |-> FullItemText(list_items[n])]

\* Whether the loop body of lines 24-49 raises for vuln_id.
LookupRaises(vulns, vuln_id) ==
    \/ XPathRaises(vuln_id)
    \/ \E n \in 1..Len(ListItems(vulns, vuln_id)) :
          ItemRaises(ListItems(vulns, vuln_id)[n])

\* Lines 16-21: ip_product_map; a later node with the same address wins.
RECURSIVE ProductMap(_)
ProductMap(nodes) ==
    IF nodes = <<>> THEN <<>>
    ELSE LET node == nodes[Len(nodes)]
             before == ProductMap(SubSeq(nodes, 1, Len(nodes) - 1))
         IN IF IsNone(node.fingerprint) THEN before
            ELSE [a \in (DOMAIN before) \cup {node.address} |->
                     IF a = node.address THEN Get(node.fingerprint) ELSE before[a]]

\* Series.unique(): the distinct values in order of first appearance.
RECURSIVE Unique(_)
Unique(s) ==
    IF s = <<>> THEN <<>>
    ELSE LET before == Unique(SubSeq(s, 1, Len(s) - 1))
             x == s[Len(s)]
         IN IF \E k \in 1..Len(before) : before[k] = x THEN before
            ELSE Append(before, x)

Column(df, name) == [k \in 1..Len(df) |-> df[k][name]]

-----------------------------------------------------------------------------
(* The scan export: a row keeps the index label pandas gives it on reading *)
(* (0, 1, ...), which sort_values carries along.                           *)

Rec(index, address, vuln_id) == [index |-> index, address |-> address, vuln_id |-> vuln_id]

IsSortedByAddress(df) ==
    \A k \in 1..(Len(df) - 1) : StrLeq(df[k].address, df[k + 1].address)

\* A variant of line 56 that passes ascending=False.
SortValuesDescending(df) ==
    { [k \in 1..Len(df) |-> df[p[k]]] : p \in
        { q \in Permutations(1..Len(df)) :
            \A k \in 1..(Len(df) - 1) : StrLeq(df[q[k + 1]].address, df[q[k]].address) } }

\* Line 56: df.sort_values(by="Asset IP Address") with the default
\* kind='quicksort', which is not a stable sort: the call may return any
\* reordering of the rows that is ascending in the address.
SortValues(df) ==
    { [k \in 1..Len(df) |-> df[p[k]]] : p \in
        { q \in Permutations(1..Len(df)) :
            IsSortedByAddress([k \in 1..Len(df) |-> df[q[k]]]) } }

NoException == [where |-> "", kind |-> "", at |-> <<>>]

\* read_and_sort_csv, lines 53-58 (called at line 170).
ReadAndSortCsv ==
    /\ pc = "start"
    /\ df_sorted' \in SortValues(csv)
    /\ pc' = "parse"
    /\ UNCHANGED <<csv, doc, solutions, ip_product_map, i, output_data_main,
                   output_data_windows, df_main, df_windows, raised>>
    /\ UNCHANGED mergeVars

\* The first identifier of ids whose lookup raises, as a sequence of 0 or 1.
RECURSIVE FirstRaising(_, _)
FirstRaising(vulns, ids) ==
    IF ids = <<>> THEN <<>>
    ELSE IF LookupRaises(vulns, Head(ids)) THEN <<Head(ids)>>
    ELSE FirstRaising(vulns, Tail(ids))

\* parse_xml_for_solutions_and_products, lines 9-51, called at line 172 with
\* the unique identifiers of line 171.
ParseXml ==
    /\ pc = "parse"
    /\ LET vuln_ids == Unique(Column(df_sorted, "vuln_id"))
           bad == FirstRaising(doc.vulns, vuln_ids)
       IN IF bad # <<>>
          THEN /\ pc' = "raised"
               /\ raised' = [where |-> "parse_xml_for_solutions_and_products",
                             kind |-> IF XPathRaises(bad[1]) THEN "XPathEvalError"
                                      ELSE "TypeError",
                             at |-> bad[1]]
               /\ UNCHANGED <<solutions, ip_product_map, i>>
          ELSE /\ pc' = "process"
               /\ solutions' = [id \in {vuln_ids[k] : k \in 1..Len(vuln_ids)} |->
                                   SolutionList(doc.vulns, id)]
               /\ ip_product_map' = ProductMap(doc.nodes)
               /\ i' = 1
               /\ UNCHANGED raised
    /\ UNCHANGED <<csv, doc, df_sorted, output_data_main, output_data_windows,
                   df_main, df_windows>>
    /\ UNCHANGED mergeVars

Pair(address, solution) == [address |-> address, solution |-> solution]

\* Line 68: solutions.get(vuln_id, []).
SolutionItems(sols, vuln_id) ==
    IF vuln_id \in DOMAIN sols THEN sols[vuln_id] ELSE <<>>

\* Line 71: ip_product_map.get(ip_address, "").
ProductName(map, ip_address) ==
    IF ip_address \in DOMAIN map THEN map[ip_address] ELSE Some(<<>>)

\* Line 70: the test that sends a row to the Windows branch.
IsWindows(vuln_id) == StartsWith(vuln_id, <<"m", "s", "f", "t">>)

\* A variant of line 72 that keeps every item.
FilteredSolutionsUnfiltered(solution_items, product_name) == solution_items

\* Line 72: the items kept for the Windows table.
FilteredSolutions(solution_items, product_name) ==
    SelectSeq(solution_items, LAMBDA sol : Contains(product_name, sol))

\* Line 76: ip_with_product.
IpWithProduct(ip_address, product_name) ==
    IF product_name # <<>>
    THEN ip_address \o <<" ", "-", " ">> \o product_name
    ELSE ip_address

\* Lines 74-77: the pairs one Windows row appends.
WindowsPairs(ip_address, filtered_solutions, product_name) ==
    [k \in 1..Len(filtered_solutions) |->
        Pair(IpWithProduct(ip_address, product_name), filtered_solutions[k])]

\* A variant of lines 79-80 that appends the first item only.
MainPairsFirstOnly(ip_address, solution_items) ==
    [k \in 1..(IF solution_items = <<>> THEN 0 ELSE 1) |->
        Pair(ip_address, solution_items[k])]

\* Lines 79-80: the pairs one other row appends.
MainPairs(ip_address, solution_items) ==
    [k \in 1..Len(solution_items) |-> Pair(ip_address, solution_items[k])]

\* One iteration of the loop of process_vulnerabilities, lines 65-80.
\* `product_name in sol` raises TypeError when product_name is None, which
\* happens as soon as there is one item to test.
ProcessRow ==
    /\ pc = "process"
    /\ i <= Len(df_sorted)
    /\ LET ip_address == df_sorted[i].address
           vuln_id == df_sorted[i].vuln_id
           solution_items == SolutionItems(solutions, vuln_id)
       IN IF IsWindows(vuln_id)
          THEN LET product_name == ProductName(ip_product_map, ip_address)
               IN IF IsNone(product_name) /\ solution_items # <<>>
                  THEN /\ pc' = "raised"
                       /\ raised' = [where |-> "process_vulnerabilities",
                                     kind |-> "TypeError", at |-> vuln_id]
                       /\ UNCHANGED <<i, output_data_main, output_data_windows>>
                  ELSE /\ output_data_windows' = output_data_windows \o
                            (IF IsNone(product_name) THEN <<>>
                             ELSE WindowsPairs(ip_address,
                                      FilteredSolutions(solution_items, Get(product_name)),
                                      Get(product_name)))
                       /\ i' = i + 1
                       /\ UNCHANGED <<pc, raised, output_data_main>>
          ELSE /\ output_data_main' = output_data_main \o MainPairs(ip_address, solution_items)
               /\ i' = i + 1
               /\ UNCHANGED <<pc, raised, output_data_windows>>
    /\ UNCHANGED <<csv, doc, df_sorted, solutions, ip_product_map, df_main, df_windows>>
    /\ UNCHANGED mergeVars

\* The loop is over: line 82 returns the two tables and create_dataframes
\* (lines 84-88, called at line 175) wraps them.
ProcessReturn ==
    /\ pc = "process"
    /\ i > Len(df_sorted)
    /\ df_main' = output_data_main
    /\ df_windows' = output_data_windows
    /\ pc' = "linux"
    /\ UNCHANGED <<csv, doc, df_sorted, solutions, ip_product_map, i,
                   output_data_main, output_data_windows, raised>>
    /\ UNCHANGED mergeVars

-----------------------------------------------------------------------------
(* SolutionSplitter: process_linux_dataframe and process_windows_dataframe. *)

\* Line 92: x.split('=>')[0].strip()
LinuxServices(x) == Strip(Split(x, SplitSep)[1])

\* A variant of line 93 that takes the second segment only.
LinuxDetailsSecondSegment(x) ==
    LET parts == Split(x, SplitSep)
    IN IF Len(parts) >= 2 THEN Strip(parts[2]) ELSE <<>>

\* Line 93: '=>'.join(x.split('=>')[1:]).strip()
LinuxDetails(x) == Strip(Join(SplitSep, Tail(Split(x, SplitSep))))

\* A variant of line 108 that cuts at the first marker, as line 92 does.
WindowsServicesAtFirst(x) == Strip(Split(x, SplitSep)[1])

\* Line 108: '=>'.join(x.split('=>')[:-1]).strip()
WindowsServices(x) ==
    LET parts == Split(x, SplitSep)
    IN Strip(Join(SplitSep, SubSeq(parts, 1, Len(parts) - 1)))

\* Line 109: x.split('=>')[-1].strip()
WindowsDetails(x) ==
    LET parts == Split(x, SplitSep)
    IN Strip(parts[Len(parts)])

SplitRow(address, services, details) ==
    [address |-> address, services |-> services, details |-> details]

\* Lines 92-94: the two new columns, the Solution column dropped.
LinuxColumns(df) ==
    [k \in 1..Len(df) |->
        SplitRow(df[k].address, LinuxServices(df[k].solution), LinuxDetails(df[k].solution))]

\* Lines 108-110.
WindowsColumns(df) ==
    [k \in 1..Len(df) |->
        SplitRow(df[k].address, WindowsServices(df[k].solution), WindowsDetails(df[k].solution))]

\* A variant of line 96 that passes keep='last'.
RECURSIVE DropDuplicatesKeepLast(_)
DropDuplicatesKeepLast(df) ==
    IF df = <<>> THEN <<>>
    ELSE LET after == DropDuplicatesKeepLast(Tail(df))
             r == Head(df)
         IN IF \E k \in 1..Len(after) :
                  after[k].address = r.address /\ after[k].services = r.services
            THEN after
            ELSE <<r>> \o after

\* Line 96: drop_duplicates(subset=['Asset IP Address', 'Services']), whose
\* default keep='first' keeps a row unless an earlier kept row has its key.
RECURSIVE DropDuplicates(_)
DropDuplicates(df) ==
    IF df = <<>> THEN <<>>
    ELSE LET before == DropDuplicates(SubSeq(df, 1, Len(df) - 1))
             r == df[Len(df)]
         IN IF \E k \in 1..Len(before) :
                  before[k].address = r.address /\ before[k].services = r.services
            THEN before
            ELSE Append(before, r)

\* Lines 102 and 118: df['Owner'] = ' '
WithOwner(df) ==
    [k \in 1..Len(df) |->
        [address |-> df[k].address, services |-> df[k].services,
         details |-> df[k].details, owner |-> <<Space>>]]

\* process_linux_dataframe, lines 90-104 (called at line 177).
ProcessLinuxDataframe ==
    /\ pc = "linux"
    /\ df_main' = WithOwner(DropDuplicates(LinuxColumns(df_main)))
    /\ pc' = "windows"
    /\ UNCHANGED <<csv, doc, df_sorted, solutions, ip_product_map, i,
                   output_data_main, output_data_windows, df_windows, raised>>
    /\ UNCHANGED mergeVars

\* process_windows_dataframe, lines 106-120 (called at line 178).
ProcessWindowsDataframe ==
    /\ pc = "windows"
    /\ df_windows' = WithOwner(WindowsColumns(df_windows))
    /\ pc' = "done"
    /\ UNCHANGED <<csv, doc, df_sorted, solutions, ip_product_map, i,
                   output_data_main, output_data_windows, df_main, raised>>
    /\ UNCHANGED mergeVars

-----------------------------------------------------------------------------
(* save_to_excel: merge_cells on column A of one sheet.  sheet[k] is the   *)
(* value of the cell in row k + 1 (row 1 is the header): None for an empty *)
(* cell.                                                                   *)

MaxRow == Len(sheet) + 1

Cell(r) == sheet[r - 1]

\* A variant of line 146 with <= for <.
RunIsMergedFromOne(first, last) == first <= last

\* Line 146: the test that decides whether the run that just ended is merged.
RunIsMerged(first, last) == first < last

\* One iteration of the loop of lines 143-149.
MergeStep ==
    /\ pc = "merge"
    /\ row <= MaxRow
    /\ IF Cell(row) # current_value
       THEN /\ merged' = IF RunIsMerged(start_row, row - 1)
                         THEN merged \cup {<<start_row, row - 1>>}
                         ELSE merged
            /\ current_value' = Cell(row)
            /\ start_row' = row
       ELSE UNCHANGED <<merged, current_value, start_row>>
    /\ row' = row + 1
    /\ UNCHANGED <<pc, sheet>>
    /\ UNCHANGED pipeVars

\* Lines 151-152, after the loop.
MergeLast ==
    /\ pc = "merge"
    /\ row > MaxRow
    /\ merged' = IF RunIsMerged(start_row, MaxRow)
                 THEN merged \cup {<<start_row, MaxRow>>}
                 ELSE merged
    /\ pc' = "merged"
    /\ UNCHANGED <<sheet, row, current_value, start_row>>
    /\ UNCHANGED pipeVars

-----------------------------------------------------------------------------
(* Inputs.                                                                 *)

SeqsUpTo(S, n) == UNION { [1..k -> S] : k \in 0..n }

\* Vulnerability identifiers of the scan export: two with the "msft" prefix,
\* one that differs from it in case only, one other, one holding a quote.
IdMsft == <<"m", "s", "f", "t">>
IdMsftOther == <<"m", "s", "f", "t", "l">>
IdUpper == <<"M", "s", "f", "t">>
IdLin == <<"l">>
IdQuote == <<"l", "'">>

\* The rows a scan export is made of: every kind of identifier on the asset
\* "10", a Windows and another finding on the asset "2", and the identifier
\* with the quote.
RecordKinds ==
    ({ <<"1", "0">> } \X { IdMsft, IdMsftOther, IdUpper, IdLin })
        \cup ({ <<"2">> } \X { IdMsft, IdLin, IdQuote })

CsvRows ==
    { [k \in 1..Len(q) |-> Rec(k - 1, q[k][1], q[k][2])] :
        q \in SeqsUpTo(RecordKinds, MaxRecords) }

\* A product name, and what a <node> can say about its operating system:
\* no fingerprint, an os element without a product attribute, an os element
\* with one.
ProductW == <<"W">>

Fingerprints == { None, Some(None), Some(Some(ProductW)) }

\* The report describes the asset "10" in each of these ways, and says
\* nothing of the asset "2".
NodeLists ==
    { << [address |-> <<"1", "0">>, fingerprint |-> f] >> : f \in Fingerprints }

\* A list item made of paragraphs of plain text.
TextItem(paras) == [k \in 1..Len(paras) |-> Elem("Paragraph", 1, paras[k], None)]

\* "a => W" and "a" once parsed: one holds the product name and one does
\* not, and both have the text "a" before the first marker.
ItemLibrary ==
    { TextItem(<< <<"a">>, <<"W">> >>),
      TextItem(<< <<"a">> >>) }

\* Reports that describe IdMsft, IdLin and IdUpper, each with the same list
\* items (a row reads the items of its own identifier only), and no other
\* identifier.
PipelineDocs ==
    { [nodes |-> n,
       vulns |-> << [id |-> IdMsft, items |-> a], [id |-> IdLin, items |-> a],
                    [id |-> IdUpper, items |-> a] >>] :
        n \in NodeLists,
        a \in SeqsUpTo(ItemLibrary, MaxListItems) }

EmptyDoc == [nodes |-> <<>>, vulns |-> <<>>]

PipelineIdle ==
    /\ df_sorted = <<>>
    /\ solutions = <<>>
    /\ ip_product_map = <<>>
    /\ i = 1
    /\ output_data_main = <<>>
    /\ output_data_windows = <<>>
    /\ df_main = <<>>
    /\ df_windows = <<>>
    /\ raised = NoException

MergeIdle ==
    /\ sheet = <<>>
    /\ row = 2
    /\ current_value = None
    /\ start_row = 2
    /\ merged = {}

-----------------------------------------------------------------------------
(* main(), lines 167-178: from the two inputs to the two dataframes.       *)

Init ==
    /\ pc = "start"
    /\ csv \in CsvRows
    /\ doc \in PipelineDocs
    /\ PipelineIdle
    /\ MergeIdle

Next ==
    \/ ReadAndSortCsv
    \/ ParseXml
    \/ ProcessRow
    \/ ProcessReturn
    \/ ProcessLinuxDataframe
    \/ ProcessWindowsDataframe

Spec == Init /\ [][Next]_vars

-----------------------------------------------------------------------------
(* The same pipeline on reports whose one list item holds an arbitrary     *)
(* solution text: a paragraph that holds nothing but a hyperlink has the   *)
(* LinkURL attribute, any text, as its paragraph text.  One Windows and    *)
(* one other finding carry it into both tables.                            *)

\* Solution texts are written with a letter, the space and the two
\* characters "=>".
SplitTokens == { <<"a">>, <<Space>>, <<"=", ">">> }

RECURSIVE Flatten(_)
Flatten(tokens) ==
    IF tokens = <<>> THEN <<>> ELSE Head(tokens) \o Flatten(Tail(tokens))

SolutionTexts == { Flatten(q) : q \in SeqsUpTo(SplitTokens, MaxLen) }

LinkItem(url) == << Elem("Paragraph", 1, <<>>, None), Elem("URLLink", 2, <<>>, Some(url)) >>

SplitCsv == << Rec(0, <<"1", "0">>, IdMsft), Rec(1, <<"2">>, IdLin) >>

SplitDocs ==
    { [nodes |-> <<>>,
       vulns |-> << [id |-> IdMsft, items |-> <<LinkItem(t)>>],
                    [id |-> IdLin, items |-> <<LinkItem(t)>>] >>] :
        t \in SolutionTexts }

InitSplit ==
    /\ pc = "start"
    /\ csv = SplitCsv
    /\ doc \in SplitDocs
    /\ PipelineIdle
    /\ MergeIdle

SpecSplit == InitSplit /\ [][Next]_vars

-----------------------------------------------------------------------------
(* The same pipeline on reports whose list items are arbitrary small       *)
(* trees: paragraphs, hyperlinks and other inline elements, nested in any  *)
(* way.                                                                    *)

ElemKinds ==
    { [tag |-> "Paragraph", text |-> <<>>, url |-> None],
      [tag |-> "Paragraph", text |-> <<" ", "a">>, url |-> None],
      [tag |-> "Bold", text |-> <<"b", " ">>, url |-> None],
      [tag |-> "URLLink", text |-> <<"t">>, url |-> None],
      [tag |-> "URLLink", text |-> <<"t">>, url |-> Some(<<"u">>)] }

\* Depths of a document-order walk: the first element is a child of the
\* ListItem, each next one at most one level below the one before it.
IsWalk(depths) ==
    /\ Len(depths) > 0 => depths[1] = 1
    /\ \A k \in 1..(Len(depths) - 1) : depths[k + 1] <= depths[k] + 1

TreeItems ==
    { [k \in 1..Len(q) |-> Elem(q[k][1].tag, q[k][2], q[k][1].text, q[k][1].url)] :
        q \in { r \in SeqsUpTo(ElemKinds \X (1..MaxElems), MaxElems) :
                  IsWalk([k \in 1..Len(r) |-> r[k][2]]) } }

\* A list item without elements, and one with one paragraph.
SmallItems == { <<>>, TextItem(<< <<"a">> >>) }

TreeItemLists ==
    {<<>>} \cup
    { front \o <<last>> :
        front \in SeqsUpTo(SmallItems, MaxListItems - 1), last \in TreeItems }

ParseCsv == << Rec(0, <<"1", "0">>, IdLin) >>

ParseDocs ==
    { [nodes |-> <<>>,
       vulns |-> << [id |-> IdMsft, items |-> <<TextItem(<< <<"c">> >>)>>],
                    [id |-> IdLin, items |-> its] >>] :
        its \in TreeItemLists }

InitParse ==
    /\ pc = "start"
    /\ csv = ParseCsv
    /\ doc \in ParseDocs
    /\ PipelineIdle
    /\ MergeIdle

SpecParse == InitParse /\ [][Next]_vars

-----------------------------------------------------------------------------
(* merge_cells on a sheet whose column A holds any values.                 *)

CellValues == { None, Some("x"), Some("y") }

InitMerge ==
    /\ pc = "merge"
    /\ csv = <<>>
    /\ doc = EmptyDoc
    /\ PipelineIdle
    /\ sheet \in SeqsUpTo(CellValues, MaxRows)
    /\ row = 2
    /\ current_value = None
    /\ start_row = 2
    /\ merged = {}

NextMerge == MergeStep \/ MergeLast

SpecMerge == InitMerge /\ [][NextMerge]_vars

-----------------------------------------------------------------------------
(* Properties of process_vulnerabilities.                                  *)

\* The rows the loop of process_vulnerabilities has consumed.
Consumed == SubSeq(df_sorted, 1, i - 1)

HasMsftPrefix(id) ==
    Len(id) >= 4 /\ id[1] = "m" /\ id[2] = "s" /\ id[3] = "f" /\ id[4] = "t"

ItemsOf(id) == IF id \in DOMAIN solutions THEN solutions[id] ELSE <<>>

\* The product name of an address: "" when the map has no name for it.
ProductOf(address) ==
    IF address \in DOMAIN ip_product_map /\ ip_product_map[address] # None
    THEN ip_product_map[address][1]
    ELSE <<>>

Occurs(sub, s) ==
    \E a \in 0..Len(s) :
        /\ a + Len(sub) <= Len(s)
        /\ \A j \in 1..Len(sub) : s[a + j] = sub[j]

LabelOf(address) ==
    IF ProductOf(address) = <<>> THEN address
    ELSE address \o <<" ", "-", " ">> \o ProductOf(address)

\* The indices, in order, of the items of a record that hold its product name.
RECURSIVE Passing(_, _, _)
Passing(items, product, k) ==
    IF k > Len(items) THEN <<>>
    ELSE (IF Occurs(product, items[k]) THEN <<k>> ELSE <<>>)
         \o Passing(items, product, k + 1)

WindowsPairsOf(rec) ==
    IF HasMsftPrefix(rec.vuln_id)
    THEN LET items == ItemsOf(rec.vuln_id)
             keep == Passing(items, ProductOf(rec.address), 1)
         IN [n \in 1..Len(keep) |->
                [address |-> LabelOf(rec.address), solution |-> items[keep[n]]]]
    ELSE <<>>

OtherPairsOf(rec) ==
    IF HasMsftPrefix(rec.vuln_id) THEN <<>>
    ELSE LET items == ItemsOf(rec.vuln_id)
         IN [n \in 1..Len(items) |-> [address |-> rec.address, solution |-> items[n]]]

RECURSIVE ConcatOver(_, _)
ConcatOver(F(_), recs) ==
    IF recs = <<>> THEN <<>> ELSE F(Head(recs)) \o ConcatOver(F, Tail(recs))

RECURSIVE TotalItems(_)
TotalItems(recs) ==
    IF recs = <<>> THEN 0 ELSE Len(ItemsOf(Head(recs).vuln_id)) + TotalItems(Tail(recs))

InReconciler == pc \in {"process", "linux", "windows", "done"}

\* C1: the Windows raw table is, in order, the concatenation over the
\* consumed records whose identifier starts with "msft" of one pair per item
\* of the identifier that holds the asset's product name ("" without a map
\* entry, and then every item passes), labelled address + " - " + product,
\* or the address alone when the product name is empty; a record without the
\* prefix contributes nothing.  At the return all records are consumed.
C1_WindowsRawTable ==
    InReconciler => output_data_windows = ConcatOver(WindowsPairsOf, Consumed)

\* The function has returned; an item was filtered out for an asset with a
\* product name, and a record without the prefix had items.
C1_Witness ==
    /\ pc = "linux"
    /\ \E k \in 1..Len(output_data_windows) :
          output_data_windows[k].address = <<"1", "0", " ", "-", " ", "W">>
    /\ \E k \in 1..Len(df_sorted) :
          /\ HasMsftPrefix(df_sorted[k].vuln_id)
          /\ Len(WindowsPairsOf(df_sorted[k])) < Len(ItemsOf(df_sorted[k].vuln_id))
    /\ \E k \in 1..Len(df_sorted) :
          /\ ~HasMsftPrefix(df_sorted[k].vuln_id)
          /\ ItemsOf(df_sorted[k].vuln_id) # <<>>

\* C2: the non-Windows raw table is, in record-then-item order, one pair
\* (address, item) for every item of every consumed record whose identifier
\* does not start with "msft"; a record with the prefix contributes nothing
\* to it, and the two tables together hold no more pairs than the consumed
\* records have items, so no record feeds both.
C2_OtherRawTable ==
    InReconciler =>
        /\ output_data_main = ConcatOver(OtherPairsOf, Consumed)
        /\ Len(output_data_main) + Len(output_data_windows) <= TotalItems(Consumed)

\* The function has returned a non-Windows table of two items of one record,
\* and the identifier that differs from "msft" in case only fed it.
C2_Witness ==
    /\ pc = "linux"
    /\ Len(output_data_main) >= 2
    /\ \E k \in 1..Len(df_sorted) :
          /\ df_sorted[k].vuln_id = IdUpper
          /\ Len(ItemsOf(IdUpper)) = 2

\* Whether the report has no vulnerability element with this id.
AbsentFromReport(id) == \A k \in 1..Len(doc.vulns) : doc.vulns[k].id # id

AllAbsent == \A k \in 1..Len(csv) : AbsentFromReport(csv[k].vuln_id)

\* C3: for every identifier of the scan export that the report does not
\* describe, the lookup does not raise and yields the empty sequence, and a
\* scan export of such identifiers only leaves both tables empty.
C3_AbsentIdentifierYieldsNoRows ==
    /\ \A k \in 1..Len(csv) :
          AbsentFromReport(csv[k].vuln_id) =>
              /\ ~(pc = "raised" /\ raised.where = "parse_xml_for_solutions_and_products"
                     /\ raised.at = csv[k].vuln_id)
              /\ InReconciler =>
                    /\ csv[k].vuln_id \in DOMAIN solutions
                    /\ solutions[csv[k].vuln_id] = <<>>
    /\ (AllAbsent /\ InReconciler) =>
          output_data_main = <<>> /\ output_data_windows = <<>>

\* C9: once both inputs have parsed, process_vulnerabilities does not raise.
C9_ReconciliationNeverRaises ==
    ~(pc = "raised" /\ raised.where = "process_vulnerabilities")

-----------------------------------------------------------------------------
(* Properties of read_and_sort_csv.                                        *)

Sorted == pc # "start"

IsPermutationOfCsv ==
    /\ Len(df_sorted) = Len(csv)
    /\ \A k \in 1..Len(csv) :
          Cardinality({ j \in 1..Len(df_sorted) : df_sorted[j] = csv[k] }) = 1

NonDecreasing ==
    \A j \in 1..Len(df_sorted), k \in 1..Len(df_sorted) :
        j < k => ~StrLess(df_sorted[k].address, df_sorted[j].address)

\* C8 as stated: the result is a permutation of the input, non-decreasing in
\* the address, and two records with the same address keep their input order.
C8_StableSort ==
    Sorted =>
        /\ IsPermutationOfCsv
        /\ NonDecreasing
        /\ \A j \in 1..Len(df_sorted), k \in 1..Len(df_sorted) :
              (j < k /\ df_sorted[j].address = df_sorted[k].address)
                  => df_sorted[j].index < df_sorted[k].index

\* C8 as amended: the result is a permutation of the input that is
\* non-decreasing in the address.
C8_SortedPermutation ==
    Sorted => IsPermutationOfCsv /\ NonDecreasing

\* The sort has moved a record: "2" came before "10" in the file.
C8_Witness ==
    /\ pc = "parse"
    /\ Len(df_sorted) = 2
    /\ df_sorted[1].index = 1
    /\ df_sorted[1].address = <<"1", "0">>
    /\ df_sorted[2].address = <<"2">>

-----------------------------------------------------------------------------
(* Properties of the two dataframes.                                       *)

\* The Linux table before line 96.
BeforeDedup == LinuxColumns(output_data_main)

SameKey(r, t) == r.address = t.address /\ r.services = t.services

\* The rows of the table before line 96 that no earlier row shares its key with.
FirstOccurrences ==
    { k \in 1..Len(BeforeDedup) :
        \A j \in 1..(k - 1) : ~SameKey(BeforeDedup[j], BeforeDedup[k]) }

\* The n-th of them, counting from the top of the table.
NthFirstOccurrence(n) ==
    CHOOSE k \in FirstOccurrences :
        Cardinality({ j \in FirstOccurrences : j <= k }) = n

\* C4: after process_linux_dataframe no two rows of the non-Windows table
\* have the same (assetLabel, services), and its rows are the first
\* occurrences of each such pair in the table before the deduplication, in
\* their order; process_windows_dataframe keeps every row of the Windows raw
\* table, in order.
C4_Deduplication ==
    /\ pc \in {"windows", "done"} =>
          /\ \A j \in 1..Len(df_main), k \in 1..Len(df_main) :
                j # k => ~SameKey(df_main[j], df_main[k])
          /\ Len(df_main) = Cardinality(FirstOccurrences)
          /\ \A n \in 1..Len(df_main) :
                LET r == BeforeDedup[NthFirstOccurrence(n)]
                IN /\ df_main[n].address = r.address
                   /\ df_main[n].services = r.services
                   /\ df_main[n].details = r.details
    /\ pc = "done" =>
          /\ Len(df_windows) = Len(output_data_windows)
          /\ \A k \in 1..Len(df_windows) :
                /\ df_windows[k].address = output_data_windows[k].address
                /\ df_windows[k].services = WindowsServices(output_data_windows[k].solution)
                /\ df_windows[k].details = WindowsDetails(output_data_windows[k].solution)

\* Both frames are built: the Linux one lost a duplicate, the Windows one
\* holds two equal rows.
C4_Witness ==
    /\ pc = "done"
    /\ Len(df_main) < Len(output_data_main)
    /\ \E j \in 1..Len(df_windows), k \in 1..Len(df_windows) :
          j < k /\ df_windows[j] = df_windows[k]

-----------------------------------------------------------------------------
(* Properties of the split into Services and Solution Details.             *)

Arrow == <<"=", ">">>

ArrowSpace == <<"=", ">", " ">>

Rebuilt(r) == r.services \o <<" ", "=", ">", " ">> \o r.details

\* The Linux frame is built: its n-th row comes from the raw pair that is the
\* n-th first occurrence of a key.
LinuxSplitDone == pc \in {"windows", "done"}

LinuxSource(n) == output_data_main[NthFirstOccurrence(n)].solution

\* The Windows frame is built: its n-th row comes from the n-th raw pair.
WindowsSplitDone == pc = "done"

WindowsSource(n) == output_data_windows[n].solution

\* C5 as stated: in either table services + " => " + solutionDetails is the
\* solution text the row comes from, up to surrounding whitespace, however
\* many markers the text holds.
C5_RebuildsEveryText ==
    /\ LinuxSplitDone =>
          \A k \in 1..Len(df_main) :
              Strip(Rebuilt(df_main[k])) = Strip(LinuxSource(k))
    /\ WindowsSplitDone =>
          \A k \in 1..Len(df_windows) :
              Strip(Rebuilt(df_windows[k])) = Strip(WindowsSource(k))

\* The paragraph texts a solution text is the " => "-join of.
ParagraphsOf(text) == Split(text, <<" ", "=", ">", " ">>)

\* A text joined from two or more paragraph texts, each without surrounding
\* whitespace and without "=>", none but the first and the last empty.
IsJoinOfParagraphs(text) ==
    LET ps == ParagraphsOf(text)
    IN /\ Len(ps) >= 2
       /\ \A n \in 1..Len(ps) : Strip(ps[n]) = ps[n] /\ ~Occurs(Arrow, ps[n])
       /\ \A n \in 2..(Len(ps) - 1) : ps[n] # <<>>

\* C5 as amended: the text is rebuilt, up to surrounding whitespace, when it
\* is such a join; a text without "=>" is not rebuilt: it goes whole
\* (trimmed) to services in the Linux table and to solutionDetails in the
\* Windows table, and the other field is empty.
C5_RebuildsJoinedParagraphs ==
    /\ LinuxSplitDone =>
          \A k \in 1..Len(df_main) :
              LET text == LinuxSource(k)
              IN /\ IsJoinOfParagraphs(text) =>
                        Strip(Rebuilt(df_main[k])) = Strip(text)
                 /\ ~Occurs(Arrow, text) =>
                        df_main[k].services = Strip(text) /\ df_main[k].details = <<>>
    /\ WindowsSplitDone =>
          \A k \in 1..Len(df_windows) :
              LET text == WindowsSource(k)
              IN /\ IsJoinOfParagraphs(text) =>
                        Strip(Rebuilt(df_windows[k])) = Strip(text)
                 /\ ~Occurs(Arrow, text) =>
                        df_windows[k].services = <<>> /\ df_windows[k].details = Strip(text)

\* Both frames are split and hold a row for "a => a => a".
C5_Witness ==
    /\ pc = "done"
    /\ \E k \in 1..Len(df_windows) :
          /\ Len(ParagraphsOf(WindowsSource(k))) = 3
          /\ IsJoinOfParagraphs(WindowsSource(k))
          /\ df_windows[k].details = <<"a">>
    /\ \E k \in 1..Len(df_main) :
          /\ IsJoinOfParagraphs(LinuxSource(k))
          /\ df_main[k].services = <<"a">>

\* The places where sub occurs in text.
Occurrences(sub, text) ==
    { a \in 1..Len(text) :
        a + Len(sub) - 1 <= Len(text) /\ SubSeq(text, a, a + Len(sub) - 1) = sub }

LastOccurrence(sub, text) ==
    CHOOSE a \in Occurrences(sub, text) : \A b \in Occurrences(sub, text) : b <= a

\* A row cut at the last occurrence of a marker: services is the text before
\* it and solutionDetails the text after it, both trimmed; a text without
\* the marker is not cut and goes whole to solutionDetails.
CutAtLast(marker, text, r) ==
    IF Occurrences(marker, text) = {}
    THEN r.services = <<>> /\ r.details = Strip(text)
    ELSE LET a == LastOccurrence(marker, text)
         IN /\ r.services = Strip(SubSeq(text, 1, a - 1))
            /\ r.details = Strip(SubSeq(text, a + Len(marker), Len(text)))

\* C6 as stated: a Windows row is cut at the last occurrence of "=> ", and
\* nowhere else.
C6_CutAtLastArrowSpace ==
    WindowsSplitDone =>
        \A k \in 1..Len(df_windows) :
            CutAtLast(ArrowSpace, WindowsSource(k), df_windows[k])

\* C6 as amended: a Windows row is cut at the last occurrence of "=>",
\* whether a space follows it or not.
C6_CutAtLastArrow ==
    WindowsSplitDone =>
        \A k \in 1..Len(df_windows) :
            CutAtLast(Arrow, WindowsSource(k), df_windows[k])

\* The Windows frame is split and a row's services kept a marker.
C6_Witness ==
    /\ pc = "done"
    /\ \E k \in 1..Len(df_windows) :
          /\ Cardinality(Occurrences(Arrow, WindowsSource(k))) = 2
          /\ Occurs(Arrow, df_windows[k].services)
          /\ df_windows[k].details # <<>>

-----------------------------------------------------------------------------
(* Properties of the remediation extraction.                               *)

\* Whether the element at j is the paragraph at k or one of its descendants.
InParagraph(item, k, j) ==
    j >= k /\ \A m \in (k + 1)..j : item[m].depth > item[k].depth

\* What one element gives to the text of a paragraph that holds it.
Contribution(elem) ==
    IF elem.tag = "URLLink" THEN elem.url[1] ELSE Strip(elem.text)

RECURSIVE TextFrom(_, _, _)
TextFrom(item, k, j) ==
    IF j > Len(item) THEN <<>>
    ELSE (IF InParagraph(item, k, j) THEN Contribution(item[j]) ELSE <<>>)
         \o TextFrom(item, k, j + 1)

TextOfParagraph(item, k) == TextFrom(item, k, k)

ParagraphSet(item) == { k \in 1..Len(item) : item[k].tag = "Paragraph" }

NthParagraph(item, n) ==
    CHOOSE k \in ParagraphSet(item) :
        Cardinality({ j \in ParagraphSet(item) : j <= k }) = n

RECURSIVE JoinedUpTo(_, _)
JoinedUpTo(item, n) ==
    IF n = 0 THEN <<>>
    ELSE IF n = 1 THEN TextOfParagraph(item, NthParagraph(item, 1))
    ELSE JoinedUpTo(item, n - 1) \o <<" ", "=", ">", " ">>
             \o TextOfParagraph(item, NthParagraph(item, n))

ExpectedItem(item) == JoinedUpTo(item, Cardinality(ParagraphSet(item)))

ItemsInReport(id) ==
    ConcatOver(LAMBDA v : IF v.id = id THEN v.items ELSE <<>>, doc.vulns)

\* C7: once the extraction has returned, every requested identifier has one
\* solution item per list item of the report, and each is the texts of the
\* list item's paragraphs in document order, the first as it is and each
\* later one after " => ", the text of a paragraph being the URLs of its
\* hyperlinks and the trimmed texts of its other elements in document order
\* with nothing between them; a list item without paragraphs gives "".
C7_SolutionItemText ==
    InReconciler =>
        \A r \in 1..Len(csv) :
            LET id == csv[r].vuln_id
                items == ItemsInReport(id)
            IN /\ id \in DOMAIN solutions
               /\ Len(solutions[id]) = Len(items)
               /\ \A n \in 1..Len(items) : solutions[id][n] = ExpectedItem(items[n])

\* The extraction has returned "" for a list item without paragraphs and
\* "a => u" for one whose second paragraph holds a hyperlink and nothing else.
C7_Witness ==
    /\ pc = "process"
    /\ IdLin \in DOMAIN solutions
    /\ solutions[IdLin] = << <<>>, <<"a", " ", "=", ">", " ", "u">> >>
    /\ Len(doc.vulns[2].items[2]) = 3

-----------------------------------------------------------------------------
(* Properties of merge_cells.                                              *)

\* The runs of two or more rows with one value that no neighbour extends.
MaximalRuns ==
    { r \in (2..MaxRow) \X (2..MaxRow) :
        /\ r[1] < r[2]
        /\ \A k \in r[1]..r[2] : Cell(k) = Cell(r[1])
        /\ r[1] = 2 \/ Cell(r[1] - 1) # Cell(r[1])
        /\ r[2] = MaxRow \/ Cell(r[2] + 1) # Cell(r[2]) }

\* C10: when merge_cells ends, the merged ranges of column A are the maximal
\* runs of two or more data rows with one value: they are disjoint, start
\* below the header, span one value, and no single row is merged.
C10_MergedRanges ==
    pc = "merged" =>
        /\ merged = MaximalRuns
        /\ \A r \in merged : r[1] >= 2 /\ r[1] < r[2]
        /\ \A r \in merged, t \in merged : r # t => (r[2] < t[1] \/ t[2] < r[1])

\* merge_cells has ended on five rows with two runs and a single row.
C10_Witness ==
    /\ pc = "merged"
    /\ Len(sheet) = 5
    /\ Cardinality(merged) = 2

====
